---- MODULE Spec2Model ----
(***************************************************************************)
(* News section of the landing page: content loader (news-loader.js),      *)
(* grid reorder engine (news-card-reorder.js), card sizing                 *)
(* (news-card-generator), the Swiper-backed news carousel (news-slider.js),*)
(* its arrow navigation (news-navigation.js) and the sliding pagination    *)
(* window (news-pagination.js); page initialisation (main.js), the         *)
(* feedback modal with its form (modal.js), the notification modal         *)
(* (notification-modal.js) and the scroll lock (scroll-lock.js).           *)
(*                                                                         *)
(* Content items are identified by their 1-based position in the canonical *)
(* (JSON) order of their category; Nil stands for the falsy values null    *)
(* and undefined.                                                          *)
(***************************************************************************)
EXTENDS Integers, Sequences, FiniteSets, TLC

\* ---------------------------------------------------------------------------
\* Bounds of the model
\* ---------------------------------------------------------------------------
MaxCards == 8
MaxRequests == 2
MaxLocks == 5
MaxTimers == 2
MaxSubmits == 2

\* ---------------------------------------------------------------------------
\* Configuration constants (config/slider-constants.js)
\* ---------------------------------------------------------------------------
TABLET == 768
DESKTOP == 1440
MAX_VISIBLE == 4
BUTTON_SIZE_MOBILE == 42
BUTTON_SIZE_TABLET == 52
SLIDES_PER_PAGE_MOBILE == 1
SLIDES_PER_PAGE_TABLET == 2
SLIDES_PER_PAGE_DESKTOP == 3
CARDS_PER_PAGE_TABLET == 4
CARDS_PER_PAGE_DESKTOP == 3

\* window.innerWidth values: the last mobile width and the first tablet and
\* desktop widths
Widths == {TABLET - 1, TABLET, DESKTOP}

Nil == 0

\* .news__tab buttons of the page (data-tab values)
Tabs == {"all", "volunteer"}

TAB_TO_CATEGORY(tab) == IF tab = "all" THEN "general" ELSE tab

\* category keys of the JSON documents that are enumerated; a key with no items
\* stands for an empty or absent category
DataCategories == {"general", "volunteer"}

Min(a, b) == IF a < b THEN a ELSE b
Max(a, b) == IF a > b THEN a ELSE b

\* Math.ceil(totalCards / 2)
CeilHalf(n) == (n + 1) \div 2

\* items[i] of a JS array (0-based); out of range reads give undefined
At(items, i) == IF i + 1 \in DOMAIN items THEN items[i + 1] ELSE Nil

Truthy(x) == x # Nil

\* array.filter(Boolean)
FilterBoolean(s) == SelectSeq(s, Truthy)

\* while (row.length < halfCount) row.push(null)
PadNull(row, halfCount) ==
  IF Len(row) < halfCount
    THEN row \o [k \in 1..(halfCount - Len(row)) |-> Nil]
    ELSE row

\* ---------------------------------------------------------------------------
\* Grid reorder engine (news-card-reorder.js)
\* ---------------------------------------------------------------------------
RECURSIVE MobileSplit(_, _, _, _, _)
MobileSplit(items, totalCards, i, topRow, bottomRow) ==
  IF i >= totalCards
    THEN <<topRow, bottomRow>>
    ELSE IF i % 2 = 0
      THEN MobileSplit(items, totalCards, i + 1, Append(topRow, At(items, i)), bottomRow)
      ELSE MobileSplit(items, totalCards, i + 1, topRow, Append(bottomRow, At(items, i)))

\* variant: the padded rows are concatenated without filtering the padding out
reorderForMobileGridNoFilter(items, totalCards) ==
  LET halfCount == CeilHalf(totalCards)
      rows == MobileSplit(items, totalCards, 0, <<>>, <<>>)
  IN PadNull(rows[1], halfCount) \o PadNull(rows[2], halfCount)

\* variant: the parity test is inverted, odd indices feed the top row
reorderForMobileGridOddFirst(items, totalCards) ==
  LET halfCount == CeilHalf(totalCards)
      rows == MobileSplit(items, totalCards, 0, <<>>, <<>>)
  IN FilterBoolean(PadNull(rows[2], halfCount) \o PadNull(rows[1], halfCount))

reorderForMobileGrid(items, totalCards) ==
  LET halfCount == CeilHalf(totalCards)
      rows == MobileSplit(items, totalCards, 0, <<>>, <<>>)
  IN FilterBoolean(PadNull(rows[1], halfCount) \o PadNull(rows[2], halfCount))

\* if (card) row.push(card)
PushIf(row, card) == IF Truthy(card) THEN Append(row, card) ELSE row

RECURSIVE TabletSplit(_, _, _, _, _)
TabletSplit(items, totalCards, pageStart, topRow, bottomRow) ==
  IF pageStart >= totalCards
    THEN <<topRow, bottomRow>>
    ELSE TabletSplit(items, totalCards, pageStart + CARDS_PER_PAGE_TABLET,
           PushIf(PushIf(topRow, At(items, pageStart)), At(items, pageStart + 1)),
           PushIf(PushIf(bottomRow, At(items, pageStart + 2)), At(items, pageStart + 3)))

\* variant: the tablet grid is split by index parity like the mobile grid
reorderForTabletGridByParity(items, totalCards) ==
  LET halfCount == CeilHalf(totalCards)
      rows == MobileSplit(items, totalCards, 0, <<>>, <<>>)
  IN FilterBoolean(PadNull(rows[1], halfCount) \o PadNull(rows[2], halfCount))

reorderForTabletGrid(items, totalCards) ==
  LET halfCount == CeilHalf(totalCards)
      rows == TabletSplit(items, totalCards, 0, <<>>, <<>>)
  IN FilterBoolean(PadNull(rows[1], halfCount) \o PadNull(rows[2], halfCount))

\* variant: every width from the tablet breakpoint up is treated as desktop
reorderCardsForGridTabletAsDesktop(items, totalCards, w) ==
  IF w >= TABLET THEN items
  ELSE reorderForMobileGrid(items, totalCards)

reorderCardsForGrid(items, totalCards, w) ==
  IF w >= DESKTOP THEN items
  ELSE IF w >= TABLET THEN reorderForTabletGrid(items, totalCards)
  ELSE reorderForMobileGrid(items, totalCards)

\* ---------------------------------------------------------------------------
\* Card sizing (news-card-generator / news-loader.js)
\* ---------------------------------------------------------------------------
\* variant: the mobile threshold is inclusive
isLargeCardInclusive(index, totalCards, w) ==
  IF w >= DESKTOP THEN index % CARDS_PER_PAGE_DESKTOP = 0
  ELSE IF w >= TABLET THEN FALSE
  ELSE index <= CeilHalf(totalCards)

\* variant: the mobile threshold is rounded down
isLargeCardFloor(index, totalCards, w) ==
  IF w >= DESKTOP THEN index % CARDS_PER_PAGE_DESKTOP = 0
  ELSE IF w >= TABLET THEN FALSE
  ELSE index < totalCards \div 2

isLargeCard(index, totalCards, w) ==
  IF w >= DESKTOP THEN index % CARDS_PER_PAGE_DESKTOP = 0
  ELSE IF w >= TABLET THEN FALSE
  ELSE index < CeilHalf(totalCards)

\* reorderedItems.map((item, index) => generateCardHTML(item, index, category, totalCards))
CardsHTML(items, w) ==
  LET reorderedItems == reorderCardsForGrid(items, Len(items), w)
      totalCards == Len(reorderedItems)
  IN [i \in 1..totalCards |->
        [item |-> reorderedItems[i], large |-> isLargeCard(i - 1, totalCards, w)]]

\* ---------------------------------------------------------------------------
\* Carousel library as configured in initNewsSlider (news-slider.js)
\* ---------------------------------------------------------------------------
\* grid.rows of the active breakpoint
GridRows(w) == IF w >= DESKTOP THEN 1 ELSE 2

\* slidesPerView of the active breakpoint ('auto' on desktop: 3 cards per page)
SlidesPerView(w) ==
  IF w >= DESKTOP THEN CARDS_PER_PAGE_DESKTOP
  ELSE IF w >= TABLET THEN 2
  ELSE 1

\* number of navigable positions ('total' handed to renderCustom): the grid has
\* ceil(n / rows) columns, of which slidesPerView are in view at a time
SnapCount(nSlides, w) ==
  Max(1, ((nSlides + GridRows(w) - 1) \div GridRows(w)) - SlidesPerView(w) + 1)

\* ---------------------------------------------------------------------------
\* Pagination (news-pagination.js)
\* ---------------------------------------------------------------------------
\* variant: the buttons carry their 1-based number as data-slide-index
renderCustomPaginationOneBased(current, total) ==
  [i \in 1..total |-> [slideIndex |-> i, active |-> (i = current)]]

\* markup returned by renderCustomPagination: button i carries
\* data-slide-index i - 1 and the active class iff i = current
renderCustomPagination(current, total) ==
  [i \in 1..total |-> [slideIndex |-> i - 1, active |-> (i = current)]]

\* el.innerHTML = renderCustom(swiper, current + 1, total): the content of the
\* pagination element (a sliding wrapper included) is replaced by new buttons;
\* the element's own inline styles stay
PaginationUpdate(pag, sw) ==
  [pag EXCEPT !.bullets = renderCustomPagination(sw.activeIndex + 1, sw.total),
              !.wrapper = FALSE, !.offset = 0]

EmptyPagination ==
  [bullets |-> <<>>, wrapper |-> FALSE, offset |-> 0, justify |-> ""]

\* variant: the window stays pinned to the start up to index MAX_VISIBLE
WindowBranchPinnedLonger(currentSlide, totalSlides) ==
  IF currentSlide <= MAX_VISIBLE THEN 0
  ELSE IF currentSlide >= totalSlides - 2 THEN totalSlides - MAX_VISIBLE
  ELSE currentSlide - 2

\* variant: the window is pinned to the end one index earlier
WindowBranchEarlyEnd(currentSlide, totalSlides) ==
  IF currentSlide <= 2 THEN 0
  ELSE IF currentSlide >= totalSlides - 3 THEN totalSlides - MAX_VISIBLE
  ELSE currentSlide - 2

\* the three-branch rule for the first visible control
WindowBranch(currentSlide, totalSlides) ==
  IF currentSlide <= 2 THEN 0
  ELSE IF currentSlide >= totalSlides - 2 THEN totalSlides - MAX_VISIBLE
  ELSE currentSlide - 2

\* variant: the middle branch puts the active control second of the four
StartIndexActiveSecond(currentSlide, totalSlides) ==
  Max(0, Min(IF currentSlide <= 2 THEN 0
             ELSE IF currentSlide >= totalSlides - 2 THEN totalSlides - MAX_VISIBLE
             ELSE currentSlide - 1,
             totalSlides - MAX_VISIBLE))

\* startIndex after Math.max(0, Math.min(startIndex, totalSlides - MAX_VISIBLE))
StartIndex(currentSlide, totalSlides) ==
  Max(0, Min(WindowBranch(currentSlide, totalSlides), totalSlides - MAX_VISIBLE))

\* variant: the mobile control size is used at every width
ButtonWidthMobileOnly(w) == BUTTON_SIZE_MOBILE

ButtonWidth(w) == IF w >= TABLET THEN BUTTON_SIZE_TABLET ELSE BUTTON_SIZE_MOBILE

\* variant: exactly MAX_VISIBLE controls are already put in the sliding wrapper
updatePaginationWindowStrict(pag, currentSlide, w) ==
  LET totalSlides == Len(pag.bullets) IN
  IF totalSlides <= 1 THEN pag
  ELSE IF totalSlides < MAX_VISIBLE
    THEN [pag EXCEPT !.wrapper = FALSE, !.offset = 0, !.justify = "center"]
    ELSE [pag EXCEPT !.wrapper = TRUE,
                     !.offset = StartIndex(currentSlide, totalSlides) * ButtonWidth(w),
                     !.justify = "flex-start"]

updatePaginationWindow(pag, currentSlide, w) ==
  LET totalSlides == Len(pag.bullets) IN
  IF totalSlides <= 1 THEN pag
  ELSE IF totalSlides <= MAX_VISIBLE
    THEN [pag EXCEPT !.wrapper = FALSE, !.offset = 0, !.justify = "center"]
    ELSE [pag EXCEPT !.wrapper = TRUE,
                     !.offset = StartIndex(currentSlide, totalSlides) * ButtonWidth(w),
                     !.justify = "flex-start"]

\* ---------------------------------------------------------------------------
\* Arrow navigation (news-navigation.js)
\* ---------------------------------------------------------------------------
\* variant: one slide per arrow click on tablet
getSwiperSlidesPerPageTabletOne(w) ==
  IF w >= DESKTOP THEN SLIDES_PER_PAGE_DESKTOP
  ELSE IF w >= TABLET THEN SLIDES_PER_PAGE_MOBILE
  ELSE SLIDES_PER_PAGE_MOBILE

getSwiperSlidesPerPage(w) ==
  IF w >= DESKTOP THEN SLIDES_PER_PAGE_DESKTOP
  ELSE IF w >= TABLET THEN SLIDES_PER_PAGE_TABLET
  ELSE SLIDES_PER_PAGE_MOBILE

isBeginning(sw) == sw.activeIndex = 0
isEnd(sw) == sw.activeIndex = sw.total - 1

updateArrowStates(sw) ==
  [prevClass |-> isBeginning(sw), prevDisabled |-> isBeginning(sw),
   nextClass |-> isEnd(sw), nextDisabled |-> isEnd(sw)]

\* on.init / on.slideChange / on.resize of the news Swiper
OnSlideChange(ui, w) ==
  [ui EXCEPT !.arrows = updateArrowStates(ui.swiper),
             !.pagination = updatePaginationWindow(ui.pagination, ui.swiper.activeIndex, w)]

\* swiper.slideTo(index): the index is clamped to the navigable positions; a
\* change of position re-renders the custom pagination and emits slideChange
slideTo(ui, index, w) ==
  LET target == Max(0, Min(index, ui.swiper.total - 1)) IN
  IF target = ui.swiper.activeIndex THEN ui
  ELSE LET moved == [ui.swiper EXCEPT !.activeIndex = target] IN
       OnSlideChange([ui EXCEPT !.swiper = moved,
                                !.pagination = PaginationUpdate(ui.pagination, moved)], w)

\* swiper.update() and the library's own resize handling: slides are re-scanned,
\* the navigable positions recomputed (the pagination is re-rendered when their
\* number changes) and the active index is kept inside them
updateSlides(ui, nSlides, w) ==
  LET total == SnapCount(nSlides, w)
      scanned == [ui.swiper EXCEPT !.total = total, !.slides = nSlides]
      relaid == IF total = ui.swiper.total
                  THEN [ui EXCEPT !.swiper = scanned]
                  ELSE [ui EXCEPT !.swiper = scanned,
                                  !.pagination = PaginationUpdate(ui.pagination, scanned)]
  IN slideTo(relaid, relaid.swiper.activeIndex, w)

\* ---------------------------------------------------------------------------
\* State
\* ---------------------------------------------------------------------------
VARIABLES
  width,        \* window.innerWidth
  newsData,     \* news-loader.js cache (loaded = FALSE: null); lengths: number of
                \* items of each category of /data/news.json
  pending,      \* number of fetches in flight per caller: "init" (initNewsLoader) or
                \* the category of a handleTabClick
  mainPc,       \* DOMContentLoaded handler: "awaitNews" (at await initNewsLoader) or "done"
  activeTab,    \* tab carrying news__tab--active
  listCategory, \* data-category of the cards in .news__list ("static": fallback markup)
  cards,        \* cards rendered by renderCards, in DOM order
  cardsWidth,   \* window.innerWidth read by the last renderCards
  domSlides,    \* number of .swiper-slide elements in .news__list
  swiper,       \* news Swiper instance (exists = FALSE: swiperInstance is null)
  pagination,   \* .news__pagination element
  arrows,       \* .news__arrow--prev / --next
  rafPending,   \* a requestAnimationFrame callback of renderCards is queued
  requests,     \* number of fetch('/data/news.json') calls issued so far
  fetched,      \* number of times `newsData = await response.json()` has run
  \* main.js
  present,      \* optional sections whose container is in the page markup
  initStep,     \* DOMContentLoaded handler: "start", "awaitNews", "done" or "threw"
  initialised,  \* modules whose init call has returned
  instances,    \* carousels that own a Swiper instance
  \* scroll-lock.js
  lockCount,        \* let lockCount
  scrollLockClass,  \* body carries the scroll-lock class
  held,             \* per component: lockScroll calls not yet matched by an unlockScroll
  \* modal.js
  modalHidden,    \* .modal--feedback carries the hidden attribute
  ariaModal,      \* its aria-modal attribute
  isOpen,         \* its is-open class
  modalOpened,    \* the last of openModal / closeModal to run was openModal
  modalListening, \* closeModal is registered on overlay, close button and ESC
  hideTimers,     \* pending 300 ms callbacks of closeModal
  openFrames,     \* pending requestAnimationFrame callbacks of openModal
  formFilled,     \* the form holds entered data
  posts,          \* POST requests in flight
  submitted,      \* submit events handled so far
  notified,       \* showSuccess / showError calls made by handleSubmit so far
  \* notification-modal.js
  notificationHidden,    \* #notification-modal carries notification-modal--hidden
  notificationType,      \* what the notification last shown says
  notificationListening, \* closeModal is registered on overlay, close button and ESC
  autoCloseTimer,        \* let autoCloseTimer: "null", or "timer" (a pending timeout)
  staleTimers            \* pending auto-close timers autoCloseTimer no longer refers to

newsVars == <<width, newsData, pending, mainPc, activeTab, listCategory,
              cards, cardsWidth, domSlides, swiper, pagination, arrows, rafPending,
              requests, fetched>>

mainVars == <<present, initStep, initialised, instances>>

lockVars == <<lockCount, scrollLockClass, held>>

formVars == <<modalHidden, ariaModal, isOpen, modalOpened, modalListening, hideTimers,
              openFrames, formFilled, posts, submitted, notified,
              notificationHidden, notificationType, notificationListening,
              autoCloseTimer, staleTimers>>

vars == <<newsVars, mainVars, lockVars, formVars>>

Callers == {"init"} \cup {TAB_TO_CATEGORY(t) : t \in Tabs}

RECURSIVE SumOver(_, _)
SumOver(f, S) ==
  IF S = {} THEN 0
  ELSE LET x == CHOOSE y \in S : TRUE IN f[x] + SumOver(f, S \ {x})

InFlight == SumOver(pending, Callers)

NoSwiper == [exists |-> FALSE, activeIndex |-> 0, total |-> 0, slides |-> 0]

NoData == [loaded |-> FALSE, lengths |-> [c \in DataCategories |-> 0]]

ArrowsInMarkup ==
  [prevClass |-> FALSE, prevDisabled |-> FALSE, nextClass |-> FALSE, nextDisabled |-> FALSE]

\* data[category]: the canonical list of a category, empty when the key is absent
ItemsOf(data, category) ==
  IF category \in DataCategories THEN [i \in 1..data.lengths[category] |-> i] ELSE <<>>

UI == [swiper |-> swiper, pagination |-> pagination, arrows |-> arrows]

SetUI(ui) ==
  /\ swiper' = ui.swiper
  /\ pagination' = ui.pagination
  /\ arrows' = ui.arrows

\* sections of the page that are optional in the markup
Carousels == {"hero", "programs", "news", "reviews"}

Sections == Carousels \cup {"faq", "feedback", "notification"}

\* components that ask for the scroll lock
Components == {"modal", "burger"}

\* the page with every section in its markup, the DOMContentLoaded handler at
\* `await initNewsLoader()`
MainIdle ==
  /\ present = Sections
  /\ initStep = "awaitNews"
  /\ initialised = {"burgerMenu", "smoothScroll", "heroSlider", "programsSlider"}
  /\ instances = {"hero", "programs"}

\* scroll-lock.js after module evaluation
LockIdle ==
  /\ lockCount = 0
  /\ scrollLockClass = FALSE
  /\ held = [c \in Components |-> 0]

\* modal.js and notification-modal.js after their init()
FormIdle ==
  /\ modalHidden = TRUE
  /\ ariaModal = FALSE
  /\ isOpen = FALSE
  /\ modalOpened = FALSE
  /\ modalListening = FALSE
  /\ hideTimers = 0
  /\ openFrames = 0
  /\ formFilled = FALSE
  /\ posts = 0
  /\ submitted = 0
  /\ notified = 0
  /\ notificationHidden = TRUE
  /\ notificationType = "none"
  /\ notificationListening = FALSE
  /\ autoCloseTimer = "null"
  /\ staleTimers = 0

Init ==
  /\ width \in Widths
  /\ newsData = NoData
  /\ pending = [r \in Callers |-> IF r = "init" THEN 1 ELSE 0]
  /\ mainPc = "awaitNews"
  /\ activeTab = "all"
  /\ listCategory = "static"
  /\ cards = <<>>
  /\ cardsWidth = width
  /\ domSlides \in 0..MaxCards
  /\ swiper = NoSwiper
  /\ pagination = EmptyPagination
  /\ arrows = ArrowsInMarkup
  /\ rafPending = FALSE
  /\ requests = 1
  /\ fetched = 0
  /\ MainIdle
  /\ LockIdle
  /\ FormIdle

\* ---------------------------------------------------------------------------
\* Operations
\* ---------------------------------------------------------------------------
\* new Swiper(...): slides are scanned, the pagination rendered, on.init runs
initNewsSlider(nSlides, w) ==
  LET sw == [exists |-> TRUE, activeIndex |-> 0, total |-> SnapCount(nSlides, w),
             slides |-> nSlides]
  IN OnSlideChange([swiper |-> sw,
                    pagination |-> PaginationUpdate(pagination, sw),
                    arrows |-> arrows], w)

\* renderCards, the part that writes .news__list
RenderList(items, category) ==
  LET cardsHTML == CardsHTML(items, width) IN
  /\ cards' = cardsHTML
  /\ listCategory' = category
  /\ cardsWidth' = width
  /\ domSlides' = Len(cardsHTML)

\* variant: the carousel is re-scanned but not sent back to the first slide
renderCardsKeepsIndex(items, category) ==
  /\ RenderList(items, category)
  /\ IF swiper.exists
       THEN /\ SetUI(updateSlides(UI, Len(items), width))
            /\ rafPending' = TRUE
       ELSE UNCHANGED <<swiper, pagination, arrows, rafPending>>

\* renderCards(items, category)
renderCards(items, category) ==
  /\ RenderList(items, category)
  /\ IF swiper.exists
       THEN /\ SetUI(slideTo(updateSlides(UI, Len(items), width), 0, width))
            /\ rafPending' = TRUE
       ELSE UNCHANGED <<swiper, pagination, arrows, rafPending>>

\* body of handleTabClick after `await fetchNewsData()` has produced data
RenderCategory(data, category) ==
  LET items == ItemsOf(data, category) IN
  IF Len(items) = 0
    THEN UNCHANGED <<cards, listCategory, cardsWidth, domSlides, swiper, pagination,
                     arrows, rafPending>>
    ELSE renderCards(items, category)

\* documents /data/news.json can hold; the resource is static, so every fetch
\* after the first successful one delivers the document already cached
NewsJson ==
  IF newsData.loaded THEN {newsData.lengths}
  ELSE {doc \in [DataCategories -> 0..MaxCards] : doc["volunteer"] \in {0, 1, MaxCards}}

Fetched(doc) == [loaded |-> TRUE, lengths |-> doc]

\* variant: every tab click issues a request, cached document or not
TabClickAlwaysFetches(tab) ==
  /\ activeTab' = tab
  /\ requests < MaxRequests
  /\ pending' = [pending EXCEPT ![TAB_TO_CATEGORY(tab)] = @ + 1]
  /\ requests' = requests + 1
  /\ UNCHANGED <<cards, listCategory, cardsWidth, domSlides, swiper, pagination,
                 arrows, rafPending>>
  /\ UNCHANGED <<width, newsData, mainPc, fetched>>
  /\ UNCHANGED <<mainVars, lockVars, formVars>>

\* handleTabClick: the tab is marked active; with a cached document the cards are
\* rendered in the same task, otherwise a fetch is started
TabClick(tab) ==
  /\ activeTab' = tab
  /\ IF newsData.loaded
       THEN /\ RenderCategory(newsData, TAB_TO_CATEGORY(tab))
            /\ UNCHANGED <<pending, requests>>
       ELSE /\ requests < MaxRequests
            /\ pending' = [pending EXCEPT ![TAB_TO_CATEGORY(tab)] = @ + 1]
            /\ requests' = requests + 1
            /\ UNCHANGED <<cards, listCategory, cardsWidth, domSlides, swiper, pagination,
                           arrows, rafPending>>
  /\ UNCHANGED <<width, newsData, mainPc, fetched>>
  /\ UNCHANGED <<mainVars, lockVars, formVars>>

\* the fetch of initNewsLoader succeeds: the document is cached, the general
\* category rendered, and the DOMContentLoaded handler goes on to initNewsSlider
InitLoadOk(doc) ==
  /\ pending["init"] > 0
  /\ pending' = [pending EXCEPT !["init"] = @ - 1]
  /\ newsData' = Fetched(doc)
  /\ LET items == ItemsOf(Fetched(doc), "general") IN
       /\ IF Len(items) > 0
            THEN RenderList(items, "general")
            ELSE UNCHANGED <<cards, listCategory, cardsWidth, domSlides>>
       /\ SetUI(initNewsSlider(IF Len(items) > 0 THEN Len(items) ELSE domSlides, width))
  /\ mainPc' = "done"
  /\ fetched' = fetched + 1
  /\ UNCHANGED <<width, activeTab, rafPending, requests>>
  /\ UNCHANGED <<mainVars, lockVars, formVars>>

\* variant: a failed initial load is retried by the loader itself
InitLoadFailRetries ==
  /\ pending["init"] > 0
  /\ requests < MaxRequests
  /\ requests' = requests + 1
  /\ UNCHANGED <<width, newsData, pending, mainPc, activeTab, listCategory, cards,
                 cardsWidth, domSlides, swiper, pagination, arrows, rafPending,
                 fetched>>
  /\ UNCHANGED <<mainVars, lockVars, formVars>>

\* the fetch of initNewsLoader fails: the fallback markup stays and the slider is
\* created over it
InitLoadFail ==
  /\ pending["init"] > 0
  /\ pending' = [pending EXCEPT !["init"] = @ - 1]
  /\ SetUI(initNewsSlider(domSlides, width))
  /\ mainPc' = "done"
  /\ UNCHANGED <<width, newsData, activeTab, listCategory, cards, cardsWidth,
                 domSlides, rafPending, requests, fetched>>
  /\ UNCHANGED <<mainVars, lockVars, formVars>>

\* the fetch started by a tab click succeeds
TabLoadOk(category, doc) ==
  /\ pending[category] > 0
  /\ pending' = [pending EXCEPT ![category] = @ - 1]
  /\ newsData' = Fetched(doc)
  /\ RenderCategory(Fetched(doc), category)
  /\ fetched' = fetched + 1
  /\ UNCHANGED <<width, mainPc, activeTab, requests>>
  /\ UNCHANGED <<mainVars, lockVars, formVars>>

\* variant: a failed fetch renders a placeholder card for the category
TabLoadFailRendersPlaceholder(category) ==
  /\ pending[category] > 0
  /\ pending' = [pending EXCEPT ![category] = @ - 1]
  /\ renderCards(<<1>>, category)
  /\ UNCHANGED <<width, newsData, mainPc, activeTab, requests, fetched>>
  /\ UNCHANGED <<mainVars, lockVars, formVars>>

\* the fetch started by a tab click fails
TabLoadFail(category) ==
  /\ pending[category] > 0
  /\ pending' = [pending EXCEPT ![category] = @ - 1]
  /\ UNCHANGED <<width, newsData, mainPc, activeTab, listCategory, cards,
                 cardsWidth, domSlides, swiper, pagination, arrows, rafPending,
                 requests, fetched>>
  /\ UNCHANGED <<mainVars, lockVars, formVars>>

\* the window is resized: the library re-lays out the slides, then on.resize runs
Resize(w) ==
  /\ w # width
  /\ width' = w
  /\ IF swiper.exists
       THEN SetUI(OnSlideChange(updateSlides(UI, domSlides, w), w))
       ELSE UNCHANGED <<swiper, pagination, arrows>>
  /\ UNCHANGED <<newsData, pending, mainPc, activeTab, listCategory, cards,
                 cardsWidth, domSlides, rafPending, requests, fetched>>
  /\ UNCHANGED <<mainVars, lockVars, formVars>>

\* click on numbered control k
BulletClick(k) ==
  /\ swiper.exists
  /\ k \in 1..Len(pagination.bullets)
  /\ SetUI(slideTo(UI, pagination.bullets[k].slideIndex, width))
  /\ UNCHANGED <<width, newsData, pending, mainPc, activeTab, listCategory,
                 cards, cardsWidth, domSlides, rafPending, requests, fetched>>
  /\ UNCHANGED <<mainVars, lockVars, formVars>>

\* variant: the previous target is not clamped at the first slide
PrevTargetUnclamped(activeIndex, pageSize) == activeIndex - pageSize

\* variant: the previous arrow moves one slide
PrevTargetSingleStep(activeIndex, pageSize) == Max(0, activeIndex - 1)

PrevTarget(activeIndex, pageSize) == Max(0, activeIndex - pageSize)

NextTarget(activeIndex, pageSize, totalSlides) ==
  LET maxIndex == totalSlides - 1 IN Min(maxIndex, activeIndex + pageSize)

\* click on the previous arrow
ArrowPrev ==
  /\ swiper.exists
  /\ ~arrows.prevDisabled
  /\ SetUI(slideTo(UI, PrevTarget(swiper.activeIndex, getSwiperSlidesPerPage(width)), width))
  /\ UNCHANGED <<width, newsData, pending, mainPc, activeTab, listCategory,
                 cards, cardsWidth, domSlides, rafPending, requests, fetched>>
  /\ UNCHANGED <<mainVars, lockVars, formVars>>

\* click on the next arrow
ArrowNext ==
  /\ swiper.exists
  /\ ~arrows.nextDisabled
  /\ SetUI(slideTo(UI, NextTarget(swiper.activeIndex, getSwiperSlidesPerPage(width),
                                  swiper.slides), width))
  /\ UNCHANGED <<width, newsData, pending, mainPc, activeTab, listCategory,
                 cards, cardsWidth, domSlides, rafPending, requests, fetched>>
  /\ UNCHANGED <<mainVars, lockVars, formVars>>

\* variant: the queued animation frame recomputes the pagination window only
AnimationFramePaginationOnly ==
  /\ rafPending
  /\ rafPending' = FALSE
  /\ IF swiper.exists
       THEN /\ pagination' = updatePaginationWindow(pagination, swiper.activeIndex, width)
            /\ UNCHANGED <<swiper, arrows>>
       ELSE UNCHANGED <<swiper, pagination, arrows>>
  /\ UNCHANGED <<width, newsData, pending, mainPc, activeTab, listCategory,
                 cards, cardsWidth, domSlides, requests, fetched>>
  /\ UNCHANGED <<mainVars, lockVars, formVars>>

\* updateNewsPagination, run by the animation frame queued in renderCards
AnimationFrame ==
  /\ rafPending
  /\ rafPending' = FALSE
  /\ IF swiper.exists
       THEN /\ pagination' = updatePaginationWindow(pagination, swiper.activeIndex, width)
            /\ arrows' = updateArrowStates(swiper)
            /\ UNCHANGED swiper
       ELSE UNCHANGED <<swiper, pagination, arrows>>
  /\ UNCHANGED <<width, newsData, pending, mainPc, activeTab, listCategory,
                 cards, cardsWidth, domSlides, requests, fetched>>
  /\ UNCHANGED <<mainVars, lockVars, formVars>>

Next ==
  \/ \E tab \in Tabs : TabClick(tab)
  \/ \E doc \in NewsJson : InitLoadOk(doc)
  \/ InitLoadFail
  \/ \E category \in Callers \ {"init"}, doc \in NewsJson : TabLoadOk(category, doc)
  \/ \E category \in Callers \ {"init"} : TabLoadFail(category)
  \/ \E w \in Widths : Resize(w)
  \/ \E k \in 1..MaxCards : BulletClick(k)
  \/ ArrowPrev
  \/ ArrowNext
  \/ AnimationFrame

Spec == Init /\ [][Next]_vars

TypeOK ==
  /\ width \in Widths
  /\ swiper.activeIndex \in 0..MaxCards
  /\ swiper.exists => swiper.activeIndex < swiper.total
  /\ Len(cards) <= MaxCards

\* ---------------------------------------------------------------------------
\* Page initialisation (main.js, DOMContentLoaded handler)
\* ---------------------------------------------------------------------------
\* the news section as the fallback markup of a desktop page, nothing in flight
NewsIdle ==
  /\ width = DESKTOP
  /\ newsData = NoData
  /\ pending = [r \in Callers |-> 0]
  /\ mainPc = "done"
  /\ activeTab = "all"
  /\ listCategory = "static"
  /\ cards = <<>>
  /\ cardsWidth = width
  /\ domSlides = 0
  /\ swiper = NoSwiper
  /\ pagination = EmptyPagination
  /\ arrows = ArrowsInMarkup
  /\ rafPending = FALSE
  /\ requests = 1
  /\ fetched = 0

\* the init calls of the handler, in program order
ModulesBeforeHero == {"burgerMenu", "smoothScroll"}

ModulesBeforeAwait == ModulesBeforeHero \cup {"heroSlider", "programsSlider"}

ModulesAfterAwait(programsSwiper) ==
  {"newsLoader", "newsSlider", "reviewsSlider", "accordion", "modal", "notificationModal"}
    \cup (IF programsSwiper THEN {"navMenuNavigation"} ELSE {})

\* hero-slider.js: the module object is undefined when .hero__swiper is absent,
\* so heroSlider.init() throws a TypeError
heroSliderDefined(sections) == "hero" \in sections

MainInit ==
  /\ present \in SUBSET Sections
  /\ initStep = "start"
  /\ initialised = {}
  /\ instances = {}
  /\ NewsIdle
  /\ LockIdle
  /\ FormIdle

\* the handler up to `await initNewsLoader()`
MainStart ==
  /\ initStep = "start"
  /\ IF heroSliderDefined(present)
       THEN /\ initialised' = ModulesBeforeAwait
            /\ instances' = present \cap {"hero", "programs"}
            /\ initStep' = "awaitNews"
       ELSE /\ initialised' = ModulesBeforeHero
            /\ instances' = {}
            /\ initStep' = "threw"
  /\ UNCHANGED <<present, newsVars, lockVars, formVars>>

\* the handler after initNewsLoader() has settled (it catches its own errors)
MainResume ==
  /\ initStep = "awaitNews"
  /\ instances' = instances \cup (present \cap {"news", "reviews"})
  /\ initialised' = initialised \cup ModulesAfterAwait("programs" \in instances)
  /\ initStep' = "done"
  /\ UNCHANGED <<present, newsVars, lockVars, formVars>>

MainNext ==
  \/ MainStart
  \/ MainResume

MainSpec == MainInit /\ [][MainNext]_vars

\* ---------------------------------------------------------------------------
\* Scroll lock (scroll-lock.js)
\* ---------------------------------------------------------------------------
LockInit ==
  /\ LockIdle
  /\ NewsIdle
  /\ MainIdle
  /\ FormIdle

\* lockScroll(), called by component c
lockScroll(c) ==
  /\ lockCount < MaxLocks
  /\ held[c] < MaxLocks
  /\ scrollLockClass' = (IF lockCount = 0 THEN TRUE ELSE scrollLockClass)
  /\ lockCount' = lockCount + 1
  /\ held' = [held EXCEPT ![c] = @ + 1]
  /\ UNCHANGED <<newsVars, mainVars, formVars>>

\* variant: the count is decremented without the floor at 0
unlockScrollNoFloor(c) ==
  /\ lockCount' = lockCount - 1
  /\ scrollLockClass' = (IF lockCount' = 0 THEN FALSE ELSE scrollLockClass)
  /\ held' = [held EXCEPT ![c] = Max(0, @ - 1)]
  /\ UNCHANGED <<newsVars, mainVars, formVars>>

\* unlockScroll(), called by component c (also when c holds no lock)
unlockScroll(c) ==
  /\ lockCount' = Max(0, lockCount - 1)
  /\ scrollLockClass' = (IF lockCount' = 0 THEN FALSE ELSE scrollLockClass)
  /\ held' = [held EXCEPT ![c] = Max(0, @ - 1)]
  /\ UNCHANGED <<newsVars, mainVars, formVars>>

LockNext ==
  \/ \E c \in Components : lockScroll(c)
  \/ \E c \in Components : unlockScroll(c)

LockSpec == LockInit /\ [][LockNext]_vars

\* ---------------------------------------------------------------------------
\* Feedback modal, its form and the notification modal
\* (modal.js, notification-modal.js)
\* ---------------------------------------------------------------------------
NotificationTypes == {"success", "server", "connection"}

FormInit ==
  /\ FormIdle
  /\ NewsIdle
  /\ MainIdle
  /\ LockIdle

\* modal.js closeModal(): the hide callback is queued whether or not one is pending
closeModal ==
  /\ isOpen' = FALSE
  /\ hideTimers' = hideTimers + 1
  /\ modalListening' = FALSE
  /\ formFilled' = FALSE
  /\ modalOpened' = FALSE
  /\ UNCHANGED <<modalHidden, ariaModal, openFrames>>

\* notification-modal.js closeModal()
closeNotification ==
  /\ autoCloseTimer' = "null"
  /\ notificationHidden' = TRUE
  /\ notificationListening' = FALSE
  /\ UNCHANGED notificationType

\* notification-modal.js openModal(type, ...): a timer that is still pending is
\* left to run, autoCloseTimer refers to the new one
openNotification(type) ==
  /\ notificationType' = type
  /\ notificationHidden' = FALSE
  /\ notificationListening' = TRUE
  /\ staleTimers' = staleTimers + (IF autoCloseTimer = "timer" THEN 1 ELSE 0)
  /\ autoCloseTimer' = "timer"

\* click on a [data-modal-target="feedback"] trigger: openModal()
TriggerClick ==
  /\ ~modalOpened
  /\ openFrames < MaxTimers
  /\ modalHidden' = FALSE
  /\ ariaModal' = TRUE
  /\ openFrames' = openFrames + 1
  /\ modalListening' = TRUE
  /\ modalOpened' = TRUE
  /\ UNCHANGED <<isOpen, hideTimers, formFilled, posts, submitted, notified,
                 notificationHidden, notificationType, notificationListening,
                 autoCloseTimer, staleTimers>>
  /\ UNCHANGED <<newsVars, mainVars, lockVars>>

\* the requestAnimationFrame callback of openModal()
OpenFrame ==
  /\ openFrames > 0
  /\ openFrames' = openFrames - 1
  /\ isOpen' = TRUE
  /\ UNCHANGED <<modalHidden, ariaModal, modalOpened, modalListening, hideTimers,
                 formFilled, posts, submitted, notified, notificationHidden,
                 notificationType, notificationListening, autoCloseTimer, staleTimers>>
  /\ UNCHANGED <<newsVars, mainVars, lockVars>>

\* overlay click, close button or ESC on the feedback modal
ModalClose ==
  /\ modalListening
  /\ hideTimers < MaxTimers
  /\ closeModal
  /\ UNCHANGED <<posts, submitted, notified, notificationHidden, notificationType,
                 notificationListening, autoCloseTimer, staleTimers>>
  /\ UNCHANGED <<newsVars, mainVars, lockVars>>

\* the 300 ms callback of closeModal()
HideTimeout ==
  /\ hideTimers > 0
  /\ hideTimers' = hideTimers - 1
  /\ modalHidden' = TRUE
  /\ ariaModal' = FALSE
  /\ UNCHANGED <<isOpen, modalOpened, modalListening, openFrames, formFilled, posts,
                 submitted, notified, notificationHidden, notificationType,
                 notificationListening, autoCloseTimer, staleTimers>>
  /\ UNCHANGED <<newsVars, mainVars, lockVars>>

\* the visitor types into the form of the opened modal
Fill ==
  /\ modalOpened
  /\ ~formFilled
  /\ formFilled' = TRUE
  /\ UNCHANGED <<modalHidden, ariaModal, isOpen, modalOpened, modalListening,
                 hideTimers, openFrames, posts, submitted, notified,
                 notificationHidden, notificationType, notificationListening,
                 autoCloseTimer, staleTimers>>
  /\ UNCHANGED <<newsVars, mainVars, lockVars>>

\* handleSubmit up to `await fetch(form.action, { method: 'POST', ... })`; the
\* browser raises submit only for a form that passes validation
Submit ==
  /\ modalOpened
  /\ formFilled
  /\ submitted < MaxSubmits
  /\ submitted' = submitted + 1
  /\ posts' = posts + 1
  /\ UNCHANGED <<modalHidden, ariaModal, isOpen, modalOpened, modalListening,
                 hideTimers, openFrames, formFilled, notified, notificationHidden,
                 notificationType, notificationListening, autoCloseTimer, staleTimers>>
  /\ UNCHANGED <<newsVars, mainVars, lockVars>>

\* variant: a non-ok response closes the modal as a success does
PostNotOkClosesModal ==
  /\ posts > 0
  /\ hideTimers < MaxTimers
  /\ posts' = posts - 1
  /\ closeModal
  /\ openNotification("server")
  /\ notified' = notified + 1
  /\ UNCHANGED submitted
  /\ UNCHANGED <<newsVars, mainVars, lockVars>>

\* handleSubmit after the fetch resolved with response.ok
PostOk ==
  /\ posts > 0
  /\ hideTimers < MaxTimers
  /\ posts' = posts - 1
  /\ closeModal
  /\ openNotification("success")
  /\ notified' = notified + 1
  /\ UNCHANGED submitted
  /\ UNCHANGED <<newsVars, mainVars, lockVars>>

\* handleSubmit after the fetch resolved with a non-ok response
PostNotOk ==
  /\ posts > 0
  /\ posts' = posts - 1
  /\ openNotification("server")
  /\ notified' = notified + 1
  /\ UNCHANGED <<modalHidden, ariaModal, isOpen, modalOpened, modalListening,
                 hideTimers, openFrames, formFilled, submitted>>
  /\ UNCHANGED <<newsVars, mainVars, lockVars>>

\* handleSubmit after the fetch rejected
PostFails ==
  /\ posts > 0
  /\ posts' = posts - 1
  /\ openNotification("connection")
  /\ notified' = notified + 1
  /\ UNCHANGED <<modalHidden, ariaModal, isOpen, modalOpened, modalListening,
                 hideTimers, openFrames, formFilled, submitted>>
  /\ UNCHANGED <<newsVars, mainVars, lockVars>>

\* overlay click, close button or ESC on the notification
NotificationClose ==
  /\ notificationListening
  /\ closeNotification
  /\ UNCHANGED staleTimers
  /\ UNCHANGED <<modalHidden, ariaModal, isOpen, modalOpened, modalListening,
                 hideTimers, openFrames, formFilled, posts, submitted, notified>>
  /\ UNCHANGED <<newsVars, mainVars, lockVars>>

\* the 5 s timeout autoCloseTimer refers to
AutoClose ==
  /\ autoCloseTimer = "timer"
  /\ closeNotification
  /\ UNCHANGED staleTimers
  /\ UNCHANGED <<modalHidden, ariaModal, isOpen, modalOpened, modalListening,
                 hideTimers, openFrames, formFilled, posts, submitted, notified>>
  /\ UNCHANGED <<newsVars, mainVars, lockVars>>

\* a 5 s timeout started by an earlier openModal and never cleared
StaleAutoClose ==
  /\ staleTimers > 0
  /\ staleTimers' = staleTimers - 1
  /\ closeNotification
  /\ UNCHANGED <<modalHidden, ariaModal, isOpen, modalOpened, modalListening,
                 hideTimers, openFrames, formFilled, posts, submitted, notified>>
  /\ UNCHANGED <<newsVars, mainVars, lockVars>>

FormNext ==
  \/ TriggerClick
  \/ OpenFrame
  \/ ModalClose
  \/ HideTimeout
  \/ Fill
  \/ Submit
  \/ PostOk
  \/ PostNotOk
  \/ PostFails
  \/ NotificationClose
  \/ AutoClose
  \/ StaleAutoClose

FormSpec == FormInit /\ [][FormNext]_vars

\* ---------------------------------------------------------------------------
\* The news carousel paged with the arrows only, the viewport fixed
\* ---------------------------------------------------------------------------
ArrowsOnlyNext ==
  \/ \E tab \in Tabs : TabClick(tab)
  \/ \E doc \in NewsJson : InitLoadOk(doc)
  \/ InitLoadFail
  \/ \E category \in Callers \ {"init"}, doc \in NewsJson : TabLoadOk(category, doc)
  \/ \E category \in Callers \ {"init"} : TabLoadFail(category)
  \/ ArrowPrev
  \/ ArrowNext
  \/ AnimationFrame

ArrowSpec == Init /\ [][ArrowsOnlyNext]_vars

\* ---------------------------------------------------------------------------
\* Grid model of the carousel (grid: { rows: 2, fill: 'row' })
\* ---------------------------------------------------------------------------
\* slides laid out in two rows, the first ceil(n / 2) slides in the top row, and
\* read page by page (cols columns each), top row before bottom row
RowOfPage(row, p, cols) == SubSeq(row, p * cols + 1, Min(Len(row), p * cols + cols))

RECURSIVE ReadPages(_, _, _, _)
ReadPages(top, bottom, p, cols) ==
  IF p * cols >= Len(top) THEN <<>>
  ELSE RowOfPage(top, p, cols) \o RowOfPage(bottom, p, cols)
         \o ReadPages(top, bottom, p + 1, cols)

GridRead(slides, cols) ==
  LET half == CeilHalf(Len(slides))
  IN ReadPages(SubSeq(slides, 1, half), SubSeq(slides, half + 1, Len(slides)), 0, cols)

\* ---------------------------------------------------------------------------
\* Properties
\* ---------------------------------------------------------------------------
Rendered == listCategory # "static"

\* the canonical list the rendered cards were produced from
Canonical == ItemsOf(newsData, listCategory)

CardItems == [i \in 1..Len(cards) |-> cards[i].item]

Mobile(w) == w < TABLET
Tablet(w) == w >= TABLET /\ w < DESKTOP
Desktop(w) == w >= DESKTOP

\* C1: the reordered list is a permutation of the canonical list for every
\* viewport class: same length, every item exactly once, no null placeholder;
\* the empty list is mapped to the empty list
C1_ReorderIsPermutation ==
  /\ \A w \in Widths : reorderCardsForGrid(<<>>, 0, w) = <<>>
  /\ Rendered =>
       /\ Len(CardItems) = Len(Canonical)
       /\ \A i \in 1..Len(CardItems) : CardItems[i] # Nil
       /\ \A x \in 1..Len(Canonical) :
            Cardinality({i \in 1..Len(CardItems) : CardItems[i] = Canonical[x]}) = 1

C1_Witness ==
  /\ Rendered
  /\ Mobile(cardsWidth)
  /\ Len(cards) = 5
  /\ CardItems # Canonical

\* C2: on mobile and tablet, laying the reordered list out in the two-row grid
\* and reading it page by page gives back the canonical list
C2_RoundTrip ==
  (Rendered /\ ~Desktop(cardsWidth)) =>
     GridRead(CardItems, SlidesPerView(cardsWidth)) = Canonical

\* C3 (as stated): reordering an already reordered list again, for the same
\* viewport, leaves it unchanged
C3_Idempotent ==
  Rendered => reorderCardsForGrid(CardItems, Len(CardItems), cardsWidth) = CardItems

\* cards of one page of the grid
CardsPerPage(w) ==
  IF Desktop(w) THEN CARDS_PER_PAGE_DESKTOP
  ELSE IF Tablet(w) THEN CARDS_PER_PAGE_TABLET
  ELSE 2

\* C3 (amended): re-application leaves the reordered list unchanged exactly on
\* desktop and, on mobile and tablet, when the list fits in one page
C3_IdempotentOnOnePage ==
  Rendered =>
    ((reorderCardsForGrid(CardItems, Len(CardItems), cardsWidth) = CardItems)
       <=> (Desktop(cardsWidth) \/ Len(CardItems) <= CardsPerPage(cardsWidth)))

C3_Witness ==
  /\ Rendered
  /\ Tablet(cardsWidth)
  /\ Len(cards) = 4
  /\ reorderCardsForGrid(CardItems, Len(CardItems), cardsWidth) = CardItems

\* items at even canonical indices in order, then those at odd indices
EvensThenOdds(L) ==
  LET half == CeilHalf(Len(L))
  IN [k \in 1..Len(L) |-> IF k <= half THEN L[2 * k - 1] ELSE L[2 * (k - half)]]

\* C4: on mobile the reordered list is the even-indexed canonical items followed
\* by the odd-indexed ones, for every length; [1..6] gives [1,3,5,2,4,6]
C4_MobileEvensThenOdds ==
  /\ reorderCardsForGrid(<<>>, 0, TABLET - 1) = <<>>
  /\ (Rendered /\ Mobile(cardsWidth)) =>
       /\ CardItems = EvensThenOdds(Canonical)
       /\ Len(Canonical) = 6 => CardItems = <<1, 3, 5, 2, 4, 6>>

C4_Witness ==
  /\ Rendered
  /\ Mobile(cardsWidth)
  /\ CardItems = <<1, 3, 5, 2, 4, 6>>

\* positions 0 and 1 of every run of 4, then positions 2 and 3 of every run
RunsOfFour(L) ==
  LET idx == [i \in 1..Len(L) |-> i - 1]
      InTop(i) == i % 4 < 2
      InBottom(i) == i % 4 >= 2
      order == SelectSeq(idx, InTop) \o SelectSeq(idx, InBottom)
  IN [k \in 1..Len(L) |-> L[order[k] + 1]]

\* C5: on tablet the reordered list is positions 0,1 of every run of 4 followed
\* by positions 2,3 of every run, partial last run included; [1..8] gives
\* [1,2,5,6,3,4,7,8]; on desktop the list is unchanged
C5_TabletRunsOfFour ==
  /\ reorderCardsForGrid(<<>>, 0, TABLET) = <<>>
  /\ (Rendered /\ Tablet(cardsWidth)) =>
       /\ CardItems = RunsOfFour(Canonical)
       /\ Len(Canonical) = 8 => CardItems = <<1, 2, 5, 6, 3, 4, 7, 8>>
  /\ (Rendered /\ Desktop(cardsWidth)) => CardItems = Canonical

C5_Witness ==
  /\ Rendered
  /\ Tablet(cardsWidth)
  /\ CardItems = <<1, 2, 5, 6, 3, 4, 7, 8>>

\* C6: every rendered card carries the size its viewport rule gives: desktop,
\* large iff index mod 3 = 0; tablet, never large; mobile, large iff the index
\* is below ceil(total / 2)
C6_SizingRule ==
  Rendered =>
    \A i \in 1..Len(cards) :
      cards[i].large <=>
        IF Desktop(cardsWidth) THEN (i - 1) % 3 = 0
        ELSE IF Tablet(cardsWidth) THEN FALSE
        ELSE 2 * (i - 1) < Len(cards)

C6_Witness ==
  /\ Rendered
  /\ Desktop(cardsWidth)
  /\ Len(cards) >= 5
  /\ cards[4].large
  /\ ~cards[5].large

\* C7: on mobile a rendered card is large exactly when its canonical index is
\* even (top-row stream) and small exactly when it is odd
C7_MobileLargeIffTopRow ==
  (Rendered /\ Mobile(cardsWidth)) =>
    \A i \in 1..Len(cards) : cards[i].large <=> ((cards[i].item - 1) % 2 = 0)

C7_Witness ==
  /\ Rendered
  /\ Mobile(cardsWidth)
  /\ Len(cards) = 7
  /\ cards[4].large
  /\ ~cards[5].large

TotalControls == Len(pagination.bullets)

\* first visible control: the sliding wrapper is shifted left by offset px, one
\* control being ButtonWidth px wide; without a wrapper nothing is shifted
WindowStart ==
  IF pagination.wrapper THEN pagination.offset \div ButtonWidth(width) ELSE 0

\* C8: with more than 4 pagination controls the window start lies in
\* [0, total - 4] and the active control lies inside the 4-wide window, in every
\* state reached by control clicks, arrow clicks, resizes and content reloads
C8_WindowInvariant ==
  (swiper.exists /\ TotalControls > MAX_VISIBLE) =>
    /\ 0 <= WindowStart
    /\ WindowStart <= TotalControls - MAX_VISIBLE
    /\ WindowStart <= swiper.activeIndex
    /\ swiper.activeIndex <= WindowStart + 3

C8_Witness ==
  /\ swiper.exists
  /\ TotalControls = 6
  /\ pagination.wrapper
  /\ swiper.activeIndex = 5
  /\ WindowStart = 2
  /\ Rendered

C10_AllVisible ==
  TotalControls <= MAX_VISIBLE => (~pagination.wrapper /\ pagination.offset = 0)

\* one control left after the window had been sliding, the recomputation done
C10_Witness ==
  /\ swiper.exists
  /\ TotalControls = 1
  /\ pagination.justify = "flex-start"
  /\ ~rafPending
  /\ ~pagination.wrapper

C12_TargetsClamped ==
  \A t \in 1..(MaxCards + 4) : \A a \in 0..(t - 1) : \A p \in 1..(MaxCards + 4) :
    /\ PrevTarget(a, p) = (IF a - p > 0 THEN a - p ELSE 0)
    /\ PrevTarget(a, p) >= 0
    /\ NextTarget(a, p, t) = (IF a + p < t - 1 THEN a + p ELSE t - 1)
    /\ NextTarget(a, p, t) <= t - 1

\* C12: the previous-arrow target is max(0, activeIndex - pageSize), never below
\* 0, and the next-arrow target is min(totalSlides - 1, activeIndex + pageSize),
\* never above the last slide index; (4, 3, 12) gives next 7 and previous 1
C12_ArrowClamping ==
  /\ C12_TargetsClamped
  /\ NextTarget(4, 3, 12) = 7
  /\ PrevTarget(4, 3) = 1
  /\ (swiper.exists /\ swiper.slides >= 1) =>
       /\ PrevTarget(swiper.activeIndex, getSwiperSlidesPerPage(width)) \in 0..swiper.activeIndex
       /\ NextTarget(swiper.activeIndex, getSwiperSlidesPerPage(width), swiper.slides)
            \in swiper.activeIndex..(swiper.slides - 1)

\* second position on tablet with the previous arrow enabled: a page back would
\* be position -1
C12_Witness ==
  /\ swiper.exists
  /\ Tablet(width)
  /\ swiper.activeIndex = 1
  /\ ~arrows.prevDisabled
  /\ swiper.activeIndex - getSwiperSlidesPerPage(width) < 0
  /\ PrevTarget(swiper.activeIndex, getSwiperSlidesPerPage(width)) = 0

C14_ArrowStates ==
  /\ arrows.prevClass = arrows.prevDisabled
  /\ arrows.nextClass = arrows.nextDisabled
  /\ (swiper.exists /\ ~rafPending) =>
       /\ arrows.prevDisabled <=> (swiper.activeIndex = 0)
       /\ arrows.nextDisabled <=> isEnd(swiper)

\* a reload that replaced a single-position list by a longer one, processed
C14_Witness ==
  /\ swiper.exists
  /\ ~rafPending
  /\ listCategory = "volunteer"
  /\ newsData.lengths["general"] = 1
  /\ swiper.total > 1
  /\ swiper.activeIndex = 0
  /\ arrows.prevDisabled
  /\ ~arrows.nextDisabled

\* the markup of the numbered controls for every total and current position
C15_ControlsAddressed ==
  \A total \in 0..(MaxCards + 2) : \A current \in 1..total :
    LET bullets == renderCustomPagination(current, total) IN
    /\ Len(bullets) = total
    /\ \A k \in 1..total :
         /\ bullets[k].slideIndex = k - 1
         /\ bullets[k].active <=> (k = current)

\* C15: numbered control k carries slide index k - 1 and a click on it moves to
\* slide k - 1 whatever the active index and the window start are; exactly the
\* control of the current position is active
C15_FineControlAddressing ==
  /\ [](/\ C15_ControlsAddressed
        /\ swiper.exists =>
             /\ TotalControls = swiper.total
             /\ \A k \in 1..TotalControls :
                  /\ pagination.bullets[k].slideIndex = k - 1
                  /\ pagination.bullets[k].active <=> (k = swiper.activeIndex + 1))
  /\ [][\A k \in 1..MaxCards : BulletClick(k) => swiper'.activeIndex = k - 1]_vars

\* last control active with the window slid to the right; control 1 is out of
\* view and still addresses slide 0
C15_Witness ==
  /\ swiper.exists
  /\ pagination.wrapper
  /\ pagination.offset > 0
  /\ TotalControls = 6
  /\ pagination.bullets[6].active
  /\ pagination.bullets[1].slideIndex = 0
  /\ ~pagination.bullets[1].active

\* ---------------------------------------------------------------------------
\* Content store
\* ---------------------------------------------------------------------------
\* C16: once a fetch has succeeded no further request is issued: a tab click is
\* served from the cached document in the same task
C16_ServedFromCache ==
  [][newsData.loaded =>
       /\ requests' = requests
       /\ \A c \in Callers : pending'[c] <= pending[c]
       /\ \A tab \in Tabs :
            (Len(ItemsOf(newsData, TAB_TO_CATEGORY(tab))) > 0 /\ TabClick(tab)) =>
               /\ listCategory' = TAB_TO_CATEGORY(tab)
               /\ Len(cards') = Len(ItemsOf(newsData, TAB_TO_CATEGORY(tab)))]_vars

\* the only request is the one of the initial load, and the volunteer category
\* has been rendered
C16_Witness ==
  /\ newsData.loaded
  /\ requests = 1
  /\ fetched = 1
  /\ listCategory = "volunteer"
  /\ activeTab = "volunteer"

\* C17 (as stated): at most one fetch of the content resource succeeds and the
\* cache is assigned at most once
C17_FetchedOnce == fetched <= 1

\* C18: a failed fetch leaves the cache and the card list as they were and
\* issues no request; after a failed initial load the page goes on to create the
\* carousel over the markup in place; a request is only ever issued by a tab
\* click
C18_FailureLeavesPageAsIs ==
  [][/\ (InFlight' < InFlight /\ fetched' = fetched) =>
          /\ newsData' = newsData
          /\ cards' = cards
          /\ listCategory' = listCategory
          /\ domSlides' = domSlides
          /\ requests' = requests
          /\ InFlight' = InFlight - 1
          /\ pending'["init"] < pending["init"] => (mainPc' = "done" /\ swiper'.exists)
     /\ requests' > requests =>
          /\ requests' = requests + 1
          /\ ~newsData.loaded
          /\ \E tab \in Tabs :
               /\ activeTab' = tab
               /\ pending' = [pending EXCEPT ![TAB_TO_CATEGORY(tab)] = @ + 1]]_vars

\* the initial load has failed: fallback markup in the carousel, nothing in
\* flight, no request beyond the first
C18_Witness ==
  /\ ~newsData.loaded
  /\ mainPc = "done"
  /\ swiper.exists
  /\ listCategory = "static"
  /\ requests = 1
  /\ InFlight = 0

ShownCategory == IF listCategory = "static" THEN "general" ELSE listCategory

\* C21: once a viewport change has settled, the rendered card order and size
\* flags are those of reorder / isLargeCard applied to the canonical list of the
\* rendered category under the current viewport class
C21_LayoutFollowsViewport ==
  (Rendered /\ InFlight = 0 /\ ~rafPending) => cards = CardsHTML(Canonical, width)

\* C22: whichever sections are in the markup, the DOMContentLoaded handler does
\* not throw; when it is done every module has been initialised and exactly the
\* carousels that are present own an instance
C22_InitCompletes ==
  /\ initStep # "threw"
  /\ initStep = "done" =>
       /\ instances = present \cap Carousels
       /\ ModulesBeforeAwait \cup ModulesAfterAwait(FALSE) \subseteq initialised

\* C23: every submit issues one POST and every POST ends in one notification:
\* success for an ok response, server error for a non-ok response, connection
\* error for a failed transport; a failure issues no new POST and leaves the
\* modal and the entered data as they are, a success closes the modal and
\* resets the form
C23_SubmitOutcomes ==
  /\ [](submitted = notified + posts)
  /\ [][/\ posts' > posts => (posts' = posts + 1 /\ submitted' = submitted + 1)
        /\ posts' < posts =>
             /\ posts' = posts - 1
             /\ submitted' = submitted
             /\ notified' = notified + 1
             /\ ~notificationHidden'
             /\ notificationType' \in NotificationTypes
        /\ PostOk => notificationType' = "success"
        /\ PostNotOk => notificationType' = "server"
        /\ PostFails => notificationType' = "connection"
        /\ (posts' < posts /\ notificationType' # "success") =>
             UNCHANGED <<modalHidden, ariaModal, isOpen, modalOpened, modalListening,
                         hideTimers, openFrames, formFilled>>
        /\ (posts' < posts /\ notificationType' = "success") =>
             (~modalOpened' /\ ~isOpen' /\ ~formFilled' /\ hideTimers' = hideTimers + 1)
       ]_vars

C23_Witness ==
  /\ submitted = 2
  /\ notified = 2
  /\ posts = 0
  /\ notificationType = "connection"
  /\ ~notificationHidden
  /\ modalOpened
  /\ formFilled

\* C24: body carries the scroll-lock class exactly when lockCount > 0, and
\* lockCount is never negative
C24_CounterInvariant ==
  /\ lockCount >= 0
  /\ scrollLockClass <=> lockCount > 0

\* one component has locked twice, the other has called unlockScroll with no
\* lock outstanding
C24_Witness ==
  /\ lockCount = 1
  /\ scrollLockClass
  /\ held["modal"] = 2
  /\ held["burger"] = 0

\* C25: the scroll-lock class is absent only when no component holds a lock it
\* has not released
C25_LockedWhileHeld ==
  (\E c \in Components : held[c] > 0) => scrollLockClass

\* auto-close timeouts of the notification that have not run yet
PendingTimers == staleTimers + (IF autoCloseTimer = "timer" THEN 1 ELSE 0)

\* C26: at most one auto-close timer of the notification is pending
C26_OneTimerPending == PendingTimers <= 1

\* C27: when no fetch is in flight the category of the rendered cards is the
\* category of the active tab
C27_ActiveTabMatchesContent ==
  InFlight = 0 => ShownCategory = TAB_TO_CATEGORY(activeTab)

\* C28 (as stated): paging from slide 0 with the arrows only, in a fixed
\* viewport, activeIndex is a multiple of pageSize or the last index
C28_ArrowPagesAligned ==
  swiper.exists =>
    \/ swiper.activeIndex % getSwiperSlidesPerPage(width) = 0
    \/ swiper.activeIndex = swiper.total - 1

\* C28 (amended): paging from slide 0 with the arrows only, in a fixed
\* viewport, activeIndex is a whole number of pages away from slide 0 or from
\* the last index
C28_ArrowPagesAlignedToAnEnd ==
  swiper.exists =>
    \/ swiper.activeIndex % getSwiperSlidesPerPage(width) = 0
    \/ (swiper.total - 1 - swiper.activeIndex) % getSwiperSlidesPerPage(width) = 0

\* the previous arrow pressed on the last index of six positions, three per page
C28_Witness ==
  /\ swiper.exists
  /\ getSwiperSlidesPerPage(width) = 3
  /\ swiper.total = 6
  /\ swiper.activeIndex = 2

\* C29: with more than 4 controls the window start applied is the value of the
\* three-branch rule, which the clamp to [0, total - 4] leaves as it is, and it
\* differs from the window start of either neighbouring activeIndex by 0 or 1,
\* never decreasing as activeIndex grows
C29_WindowMovesSmoothly ==
  (swiper.exists /\ pagination.wrapper /\ TotalControls > MAX_VISIBLE) =>
    /\ WindowStart = WindowBranch(swiper.activeIndex, TotalControls)
    /\ WindowBranch(swiper.activeIndex, TotalControls) \in 0..(TotalControls - MAX_VISIBLE)
    /\ swiper.activeIndex > 0 =>
         WindowStart - StartIndex(swiper.activeIndex - 1, TotalControls) \in {0, 1}
    /\ swiper.activeIndex + 1 < TotalControls =>
         StartIndex(swiper.activeIndex + 1, TotalControls) - WindowStart \in {0, 1}

C29_Witness ==
  /\ swiper.exists
  /\ pagination.wrapper
  /\ TotalControls = 5
  /\ swiper.activeIndex = 3
  /\ WindowStart = 1

\* C30: a feedback modal that was opened and not closed since is neither hidden
\* nor marked aria-modal = false
C30_OpenedNeverHidden == modalOpened => (~modalHidden /\ ariaModal)

====
